---- MODULE Spec2Model ----
(***************************************************************************)
(* x32-reflector: the relay state engine.                                  *)
(*                                                                         *)
(* Two implementations live in the repository and both are modelled:       *)
(*   - class State (src/src/state/state.ts): _devices, _targets,           *)
(*     _interval, with register / redirect / unredirect / renew /          *)
(*     receive / checkin / cleanup / launch / stop;                        *)
(*   - the legacy entry point (src/src/index.ts): reflectorTargets,        *)
(*     x32Devices, with register / remove / renew / cleanup.               *)
(* Node runs every callback to completion, so each handler is one action.  *)
(* Time is in milliseconds, as returned by Date.now().                     *)
(***************************************************************************)
EXTENDS Integers, Sequences, FiniteSets, TLC

\* ---------------------------------------------------------------- bounds
\* The clock stops advancing once it would pass MaxNow.
MaxNow == 60000
\* Total number of target entries held over all devices.
MaxTargets == 2
\* The clock of the expiry scenarios stops once it would pass TimeMaxNow,
\* and their collections hold TimeMaxTargets entries in total.
TimeMaxNow == 95000
TimeMaxTargets == 2

\* The clock of the fair runs stops once it would pass LiveMaxNow, and
\* their collections hold LiveMaxTargets entries in total.
LiveMaxNow == 90000
LiveMaxTargets == 2

\* The collections of the forwarding scenario hold ForwardMaxTargets entries
\* in total.
ForwardMaxTargets == 2

\* The collections of the scenario with a caller that keeps the result of
\* clients() hold AliasMaxTargets entries in total.
AliasMaxTargets == 2

\* The collections of the ordering scenarios hold OrderMaxTargets entries in
\* total.
OrderMaxTargets == 3

\* The collections of the scenarios with the /register route hold
\* RouteMaxTargets entries in total.
RouteMaxTargets == 2

\* The clock of the scenarios with timed ticks stops once it would pass
\* TimedMaxNow, their collections hold TimedMaxTargets entries in total, and
\* the event loop delays a tick by at most MaxLate milliseconds.
TimedMaxNow == 72000
TimedMaxTargets == 1
MaxLate == 3000

\* register() is called at run time while fewer than MaxSockets sockets
\* have been created, the sockets of the constructor included; the
\* collections of that scenario hold RegistryMaxTargets entries in total.
MaxSockets == 3
RegistryMaxTargets == 2

\* The amounts by which Date.now() moves between two callbacks: one whole
\* timeout, so that an entry that is not renewed is expired at the next sweep.
ClockSteps == {60000}
\* The same for the expiry scenarios: renewal after 30 s, sweeps 35 s and
\* 65 s later, and one millisecond short of 30 s.
TimeSteps == {29999, 30000, 35000}

\* The clock steps of the scenarios with timed ticks: a period of the
\* interval and a third of it.
TimedSteps == {3000, 9000}

\* The clock step of the fair runs: half a timeout.
LiveStep == 30000

\* ---------------------------------------------------------- configuration
\* The configuration object (README example, timeout of the 1 minute scenario).
config ==
    [ x32     |-> << [name |-> "Primary",   ip |-> "10.1.10.20", port |-> 10023],
                     [name |-> "Secondary", ip |-> "10.1.10.21", port |-> 10023] >>,
      http    |-> [prefix |-> "/x32"],
      timeout |-> 1 ]

\* The delay given to setInterval in launch.
Period == 9000

\* Date.now() - checkin is compared with config.timeout * 60000.
MsPerMinute == 60000

\* Inputs of the management operations.
DeviceNames == {"Primary", "Secondary", "Unknown"}
Ips         == {"127.0.0.1", "9.9.9.9"}
Ports       == {1, 9000}
Messages    == {"m1", "m2"}

\* The arguments a call of fail or succeed passes after res and error: the
\* configuration, or nothing.
NoConfig == <<>>

\* Devices handed to register() at run time: one under a name of the
\* configuration, one under a new name.
RegisterInputs ==
    { [name |-> "Primary", ip |-> "10.1.10.30", port |-> 10023],
      [name |-> "Aux",     ip |-> "10.1.10.40", port |-> 10024] }

\* What the transport hands to the callback of a send: null, or an error.
SendErrors == {"null", "EHOSTUNREACH"}

\* writePacket({address: '/xremote'}), the opaque keep-alive packet.
XRemote == "/xremote"

\* The value of an unset timer handle.
Undefined == 0

\* Inputs of the legacy handlers: the ip and port of the x32 instance.
X32Ips   == {"10.1.10.20", "10.1.10.21", "10.1.10.99"}
X32Ports == {10023}

VARIABLES
    now,          \* Date.now()
    _devices,     \* State._devices : sequence of [name, ip, port, socket]
    _targets,     \* State._targets : device name -> sequence of [ip, port, checkin]
    _interval,    \* State._interval : timer handle or Undefined
    timers,       \* the set of active setInterval timers
    binding,      \* register() calls suspended at `await promisifyBind`
    sockets,      \* number of sockets created so far
    held,         \* the array a caller got from clients() and kept
    due,          \* the time the interval is due next, where ticks are timed
    sent,         \* socket.send calls issued by the last callback
    last,         \* the last operation and the error it raised ("" if none)
    reflectorTargets, \* index.ts : deviceToID -> sequence of <<ip, port, created>>
    x32Devices,   \* index.ts : sequence of [name, ip, port, socket]
    x32Binding,   \* index.ts : sockets whose bind callback has not run yet
    startup       \* index.ts : "binding", "rejected" or "running" (intervals set)

stateVars  == <<_devices, _targets, _interval, timers, binding, sockets, held>>
legacyVars == <<reflectorTargets, x32Devices, x32Binding, startup>>
vars == <<now, due, sent, last, stateVars, legacyVars>>

\* --------------------------------------------------------------- helpers
Range(s) == {s[i] : i \in 1..Len(s)}

RECURSIVE SumLen(_, _)
SumLen(t, names) ==
    IF names = {} THEN 0
    ELSE LET n == CHOOSE x \in names : TRUE
         IN  Len(t[n]) + SumLen(t, names \ {n})

TotalTargets == SumLen(_targets, DOMAIN _targets)

\* A ServerResponse nothing has been written to.
NoResponse == [status |-> 0, location |-> <<>>]

\* The record of a callback: its name, the error it raised, the methods it
\* called, in the order it called them, and what it wrote to its response.
Op(op, err) == [op |-> op, err |-> err, calls |-> <<>>, res |-> NoResponse]

\* ------------------------------------------------- arrays held by callers
\* clients() returns the array of the device itself, and a caller may keep
\* it.  While that array is the one in _targets (live) the caller reads the
\* registry's list; once _targets[device] has been assigned a new array
\* (filter, or the reset in register) the caller's array keeps its length,
\* and each of its items is either an entry object that is also in the
\* registry's array, at position pos, or one that no longer is (pos = 0),
\* with the values it had when it left.
NotHeld == [device |-> "", live |-> FALSE, items |-> <<>>]

Shared(i) == [pos |-> i, ip |-> "", port |-> 0, checkin |-> 0]

Frozen(e) == [pos |-> 0, ip |-> e.ip, port |-> e.port, checkin |-> e.checkin]

\* The position, after a filter that keeps the entries marked in keeps, of
\* the entry at position i.
NewPos(keeps, i) == Cardinality({j \in 1..i : keeps[j]})

\* The caller's array h after _targets[h.device] = list.filter(...), where
\* keeps[i] tells whether the filter keeps list[i].
heldAfterFilter(h, list, keeps) ==
    LET moved(i) == IF keeps[i] THEN Shared(NewPos(keeps, i))
                    ELSE Frozen(list[i])
    IN  IF h.live
        THEN [device |-> h.device, live |-> FALSE,
              items |-> [i \in 1..Len(list) |-> moved(i)]]
        ELSE [device |-> h.device, live |-> FALSE,
              items |-> [k \in 1..Len(h.items) |->
                            IF h.items[k].pos = 0 THEN h.items[k]
                            ELSE moved(h.items[k].pos)]]

\* What the caller reads in the array it holds.
Observed ==
    IF held.device = "" THEN <<>>
    ELSE IF held.live THEN _targets[held.device]
    ELSE [k \in 1..Len(held.items) |->
             IF held.items[k].pos = 0
             THEN [ip |-> held.items[k].ip, port |-> held.items[k].port,
                   checkin |-> held.items[k].checkin]
             ELSE _targets[held.device][held.items[k].pos]]

\* ------------------------------------------------------------ State class

\* The entity register() builds for a device and its socket.
Entity(device, socket) ==
    [name |-> device.name, ip |-> device.ip, port |-> device.port,
     socket |-> socket]

\* constructor: every configured device is handed to register(), which
\* creates its socket and suspends on the bind.  In index.ts the startup
\* code has created and is binding one socket per configured instance.
Init ==
    /\ now = 0
    /\ _devices = <<>>
    /\ _targets = <<>>
    /\ _interval = Undefined
    /\ timers = {}
    /\ binding = { Entity(config.x32[i], i) : i \in 1..Len(config.x32) }
    /\ sockets = Len(config.x32)
    /\ held = NotHeld
    /\ due = 0
    /\ sent = <<>>
    /\ last = Op("constructor", "")
    /\ reflectorTargets = <<>>
    /\ x32Devices = <<>>
    /\ x32Binding = { Entity(config.x32[i], i) : i \in 1..Len(config.x32) }
    /\ startup = "binding"

\* register(device), up to `await promisifyBind`: the socket is created,
\* the entity built and the call suspended on the bind.
register(device) ==
    /\ sockets' = sockets + 1
    /\ binding' = binding \cup {Entity(device, sockets + 1)}
    /\ sent' = <<>>
    /\ last' = Op("register", "")
    /\ UNCHANGED <<legacyVars, now, held, _devices, _targets, _interval, timers>>

\* registerBound without the last line of register: the entity is pushed and
\* no target list is set for its name.
registerBound_NoList(entity) ==
    /\ entity \in binding
    /\ binding' = binding \ {entity}
    /\ _devices' = Append(_devices, entity)
    /\ sent' = <<>>
    /\ last' = Op("registerBound", "")
    /\ UNCHANGED <<legacyVars, now, held, _targets, _interval, timers, sockets>>

\* registerBound creating the target list without pushing the entity.
registerBound_NoPush(entity) ==
    /\ entity \in binding
    /\ binding' = binding \ {entity}
    /\ _targets' = [n \in DOMAIN _targets \cup {entity.name} |->
                      IF n = entity.name THEN <<>> ELSE _targets[n]]
    /\ sent' = <<>>
    /\ last' = Op("registerBound", "")
    /\ UNCHANGED <<legacyVars, now, held, _devices, _interval, timers, sockets>>

\* registerBound putting the entity in the place of the entry that has its
\* name, if there is one.
registerBound_Replaces(entity) ==
    /\ entity \in binding
    /\ binding' = binding \ {entity}
    /\ _devices' = IF \E i \in 1..Len(_devices) : _devices[i].name = entity.name
                   THEN [i \in 1..Len(_devices) |->
                            IF _devices[i].name = entity.name THEN entity
                            ELSE _devices[i]]
                   ELSE Append(_devices, entity)
    /\ _targets' = [n \in DOMAIN _targets \cup {entity.name} |->
                      IF n = entity.name THEN <<>> ELSE _targets[n]]
    /\ held' = IF held.device = entity.name
               THEN heldAfterFilter(held, _targets[entity.name],
                        [i \in 1..Len(_targets[entity.name]) |-> FALSE])
               ELSE held
    /\ sent' = <<>>
    /\ last' = Op("registerBound", "")
    /\ UNCHANGED <<legacyVars, now, _interval, timers, sockets>>

\* register(device), after `await promisifyBind` resolved: wire the message
\* handler, push the entity and reset the target list of its name.
registerBound(entity) ==
    /\ entity \in binding
    /\ binding' = binding \ {entity}
    /\ _devices' = Append(_devices, entity)
    /\ _targets' = [n \in DOMAIN _targets \cup {entity.name} |->
                      IF n = entity.name THEN <<>> ELSE _targets[n]]
    /\ held' = IF held.device = entity.name
               THEN heldAfterFilter(held, _targets[entity.name],
                        [i \in 1..Len(_targets[entity.name]) |-> FALSE])
               ELSE held
    /\ sent' = <<>>
    /\ last' = Op("registerBound", "")
    /\ UNCHANGED <<legacyVars, now, _interval, timers, sockets>>

\* register(device), when promisifyBind rejected: it ends with the bind
\* error and nothing is pushed.
registerFailed(entity) ==
    /\ entity \in binding
    /\ binding' = binding \ {entity}
    /\ sent' = <<>>
    /\ last' = Op("registerFailed", "bind error")
    /\ UNCHANGED <<legacyVars, now, held, _devices, _targets, _interval, timers, sockets>>

\* An error thrown out of a callback of the event loop (a timer, a message
\* handler, the callback of a send) is an uncaught exception.
Uncaught == last.op \in {"tick", "receive", "logSend"} /\ last.err # ""

\* The process has ended: nothing runs after it.
exited == last.op = "exit" \/ Uncaught

\* The constructor drops the promise of register(device), so a rejected bind
\* of a configured device is an unhandled rejection.  A runtime that throws
\* on unhandled rejections ends the process with the bind error; one that
\* warns goes on as in registerFailed.
registerFailedExit(entity) ==
    /\ entity \in binding
    /\ entity.socket <= Len(config.x32)
    /\ binding' = binding \ {entity}
    /\ sent' = <<>>
    /\ last' = Op("exit", "bind error")
    /\ UNCHANGED <<legacyVars, now, held, _devices, _targets, _interval, timers, sockets>>

\* redirect putting the new entry in front of the others (unshift for push).
redirect_Unshift(from, to, port) ==
    /\ sent' = <<>>
    /\ IF from \notin DOMAIN _targets
       THEN /\ last' = Op("redirect", "Unknown device")
            /\ UNCHANGED _targets
       ELSE /\ _targets' = [_targets EXCEPT ![from] =
                   <<[ip |-> to, port |-> port, checkin |-> now]>> \o @]
            /\ last' = Op("redirect", "")
    /\ UNCHANGED <<legacyVars, now, held, _devices, _interval, timers, binding, sockets>>

\* redirect(from, to, port)
redirect(from, to, port) ==
    /\ sent' = <<>>
    /\ IF from \notin DOMAIN _targets
       THEN /\ last' = Op("redirect", "Unknown device")
            /\ UNCHANGED _targets
       ELSE /\ _targets' = [_targets EXCEPT ![from] =
                   Append(@, [ip |-> to, port |-> port, checkin |-> now])]
            /\ last' = Op("redirect", "")
    /\ UNCHANGED <<legacyVars, now, held, _devices, _interval, timers, binding, sockets>>

\* The error State.redirect(from, to, port) throws ("" if none).
redirectError(from) ==
    IF from \notin DOMAIN _targets THEN "Unknown device" ELSE ""

\* encodeURIComponent on the error messages: a space becomes %20.
encodeURIComponent(s) ==
    CASE s = "Unknown device" -> "Unknown%20device"
      [] s = "Unknown redirect target" -> "Unknown%20redirect%20target"
      [] s = "Cannot read properties of undefined (reading 'http')" ->
             "Cannot%20read%20properties%20of%20undefined%20(reading%20'http')"
      [] OTHER -> s

\* What a call of fail or succeed ends with when it throws.
Thrown(message) == [res |-> NoResponse, err |-> message]

\* fail(res, error, config): reading config.http of an undefined config
\* throws before writeHead is called; otherwise a 307 to /?error=<error>.
fail(error, cfg) ==
    IF cfg = NoConfig
    THEN Thrown("Cannot read properties of undefined (reading 'http')")
    ELSE [res |-> [status |-> 307,
                   location |-> <<cfg[1].http.prefix, "/?error=",
                                  encodeURIComponent(error)>>],
          err |-> ""]

\* succeed(res, config): a 307 to / under the prefix of the configuration.
succeed(cfg) ==
    IF cfg = NoConfig
    THEN Thrown("Cannot read properties of undefined (reading 'http')")
    ELSE [res |-> [status |-> 307, location |-> <<cfg[1].http.prefix, "/">>],
          err |-> ""]

\* handle of routes/register.ts: try { state.redirect(device, ip, port);
\* succeed(res) } catch (e) { fail(res, e.message) }, where succeed and fail
\* are called without their config argument.
handleEnd(ip, port, device) ==
    LET thrown == redirectError(device)
        tried  == IF thrown = "" THEN succeed(NoConfig) ELSE Thrown(thrown)
        end    == IF tried.err = "" THEN tried ELSE fail(tried.err, NoConfig)
    IN  [targets |-> IF thrown = ""
                     THEN [_targets EXCEPT ![device] =
                              Append(@, [ip |-> ip, port |-> port, checkin |-> now])]
                     ELSE _targets,
         res |-> end.res,
         err |-> end.err]

\* One call of handle of routes/register.ts.
handle(ip, port, device) ==
    LET end == handleEnd(ip, port, device)
    IN  /\ _targets' = end.targets
        /\ sent' = <<>>
        /\ last' = [Op("handle", end.err) EXCEPT !.res = end.res]
        /\ UNCHANGED <<legacyVars, now, held, _devices, _interval, timers, binding, sockets>>

\* ------------------------------------------------------------ MicroRouter

\* SUPPORTED_METHODS, and the routes and methods in use once
\* routes/register.ts has called router.get.
SUPPORTED_METHODS == {"GET", "POST"}
_methodsInUse == {"GET"}
_routes ==
    << [method |-> "GET", path |-> "/register", parseQuery |-> TRUE,
        queryValidator |-> <<"ip", "port", "device">>] >>

\* The requests: a method or none, a url or none, and the query of the url,
\* a record of the parameters it has.
NoMethod == "undefined"
Methods  == {"GET", "POST", "DELETE", NoMethod}
Pathnames == {"/register", "/REGISTER", "/remove"}
Queries ==
    { [ip |-> "127.0.0.1", port |-> "9000", device |-> "Primary"],
      [ip |-> "127.0.0.1", port |-> "9000", device |-> "Unknown"],
      [ip |-> "127.0.0.1", port |-> "abc",  device |-> "Primary"],
      [ip |-> "999.0.0.1", port |-> "9000", device |-> "Primary"],
      [ip |-> "127.0.0.1", port |-> "9000", device |-> "Aux1"],
      [ip |-> "127.0.0.1", port |-> "9000"] }
Requests ==
    [method : Methods, hasUrl : BOOLEAN, pathname : Pathnames, query : Queries]

\* String.toLowerCase on the pathnames: the route's regex has the i flag.
toLowerCase(s) ==
    CASE s = "/REGISTER" -> "/register"
      [] OTHER -> s

\* route.path.test(pathname) for the regex /^\/register$/i.
pathTest(path, pathname) == toLowerCase(pathname) = path

\* Number(t) on the port strings, and whether it is NaN.
Number(t) ==
    CASE t = "9000" -> 9000
      [] OTHER -> 0
isNaN(t) == t \notin {"9000"}

\* The validators of the /register route: IP_REGEX, !isNaN(Number(t)) and
\* /^[A-Za-z]+$/.
validator(name, t) ==
    CASE name = "ip"     -> t \in {"127.0.0.1"}
      [] name = "port"   -> ~isNaN(t)
      [] name = "device" -> t \in {"Primary", "Unknown"}

\* The error message of each validator.
validatorError(name) ==
    CASE name = "ip"     -> "IP must be a valid IP address"
      [] name = "port"   -> "Port must be a number"
      [] name = "device" -> "Device name require"

\* incomingGet, the loop over route.queryValidator from position i: the
\* message of the first parameter that is missing or fails its validator,
\* "" if there is none.
RECURSIVE queryError(_, _, _)
queryError(validators, i, query) ==
    IF i > Len(validators) THEN ""
    ELSE LET name == validators[i]
         IN  IF name \notin DOMAIN query
             THEN "query parameter " \o name \o " is required"
             ELSE IF ~validator(name, query[name]) THEN validatorError(name)
             ELSE queryError(validators, i + 1, query)

\* The positions of the routes that match the request.
Matching(req) ==
    {i \in 1..Len(_routes) : /\ _routes[i].method = req.method
                             /\ pathTest(_routes[i].path, req.pathname)}

\* The test of incoming before routing: 405 for a method that is not
\* supported or that is in use.
rejects(method) ==
    method \notin SUPPORTED_METHODS \/ method \in _methodsInUse

\* MicroRouter.incoming(req, res, next), with incomingGet and the handler of
\* the route it calls.
incoming(req) ==
    /\ sent' = <<>>
    /\ IF req.method = NoMethod \/ req.method \notin _methodsInUse \/ ~req.hasUrl
       THEN /\ last' = [Op("incoming", "") EXCEPT !.calls = <<"next">>]
            /\ UNCHANGED _targets
       ELSE IF rejects(req.method)
       THEN /\ last' = [Op("incoming", "") EXCEPT
                           !.res = [status |-> 405, location |-> <<>>]]
            /\ UNCHANGED _targets
       ELSE IF Matching(req) = {}
       THEN /\ last' = [Op("incoming", "") EXCEPT !.calls = <<"next">>]
            /\ UNCHANGED _targets
       ELSE LET route == _routes[CHOOSE i \in Matching(req) :
                                     \A j \in Matching(req) : i <= j]
                error == IF route.parseQuery
                         THEN queryError(route.queryValidator, 1, req.query)
                         ELSE ""
            IN  IF error # ""
                THEN LET end == fail(error, NoConfig)
                     IN  /\ last' = [Op("incoming", end.err) EXCEPT !.res = end.res]
                         /\ UNCHANGED _targets
                ELSE LET end == handleEnd(req.query.ip, Number(req.query.port),
                                          req.query.device)
                     IN  /\ last' = [Op("incoming", end.err) EXCEPT
                                        !.res = end.res, !.calls = <<"handle">>]
                         /\ _targets' = end.targets
    /\ UNCHANGED <<legacyVars, now, held, _devices, _interval, timers, binding, sockets>>

\* unredirectKeeps with the test of the legacy remove (both fields differ).
unredirectKeeps_BothDiffer(entry, to, port) ==
    entry.ip # to /\ entry.port # port

\* The predicate of the filter in unredirect: the entries that are kept.
unredirectKeeps(entry, to, port) ==
    ~(entry.ip = to /\ entry.port = port)

\* unredirect(from, to, port)
unredirect(from, to, port) ==
    /\ sent' = <<>>
    /\ IF from \notin DOMAIN _targets
       THEN /\ last' = Op("unredirect", "Unknown device")
            /\ UNCHANGED <<_targets, held>>
       ELSE LET before == Len(_targets[from])
                after  == SelectSeq(_targets[from],
                                    LAMBDA r : unredirectKeeps(r, to, port))
            IN  /\ _targets' = [_targets EXCEPT ![from] = after]
                /\ held' = IF held.device = from
                           THEN heldAfterFilter(held, _targets[from],
                                    [i \in 1..Len(_targets[from]) |->
                                        unredirectKeeps(_targets[from][i], to, port)])
                           ELSE held
                /\ last' = Op("unredirect",
                              IF Len(after) = before
                              THEN "Unknown redirect target" ELSE "")
    /\ UNCHANGED <<legacyVars, now, _devices, _interval, timers, binding, sockets>>

\* renew looking for the pair in the lists of all devices.
renew_AllDevices(from, to, port) ==
    /\ sent' = <<>>
    /\ IF from \notin DOMAIN _targets
       THEN /\ last' = Op("renew", "Unknown device")
            /\ UNCHANGED _targets
       ELSE LET changed == \E i \in 1..Len(_targets[from]) :
                               (_targets[from][i].ip = to /\ _targets[from][i].port = port)
            IN  /\ _targets' = [d \in DOMAIN _targets |->
                       [i \in 1..Len(_targets[d]) |->
                           IF _targets[d][i].ip = to /\ _targets[d][i].port = port
                           THEN [_targets[d][i] EXCEPT !.checkin = now]
                           ELSE _targets[d][i]]]
                /\ last' = Op("renew",
                              IF changed THEN "" ELSE "Unknown redirect target")
    /\ UNCHANGED <<legacyVars, now, held, _devices, _interval, timers, binding, sockets>>

\* renewMatches passing over the entries whose timeout has elapsed.
renewMatches_Unexpired(entity, to, port) ==
    /\ entity.ip = to /\ entity.port = port
    /\ now - entity.checkin < config.timeout * MsPerMinute

\* renewMatches comparing the address alone.
renewMatches_IpOnly(entity, to, port) ==
    entity.ip = to

\* The condition of the forEach body of renew.
renewMatches(entity, to, port) ==
    entity.ip = to /\ entity.port = port

\* renewEntity without the assignment to checkin.
renewEntity_NoAssign(entity, time) ==
    entity

\* renewEntity storing seconds where the entries are created in milliseconds.
renewEntity_Seconds(entity, time) ==
    [entity EXCEPT !.checkin = time \div 1000]

\* The assignment of the forEach body of renew.
renewEntity(entity, time) ==
    [entity EXCEPT !.checkin = time]

\* renew(from, to, port)
renew(from, to, port) ==
    /\ sent' = <<>>
    /\ IF from \notin DOMAIN _targets
       THEN /\ last' = Op("renew", "Unknown device")
            /\ UNCHANGED _targets
       ELSE LET changed == \E i \in 1..Len(_targets[from]) :
                               renewMatches(_targets[from][i], to, port)
            IN  /\ _targets' = [_targets EXCEPT ![from] =
                       [i \in 1..Len(@) |->
                           IF renewMatches(@[i], to, port)
                           THEN renewEntity(@[i], now) ELSE @[i]]]
                /\ last' = Op("renew",
                              IF changed THEN "" ELSE "Unknown redirect target")
    /\ UNCHANGED <<legacyVars, now, held, _devices, _interval, timers, binding, sockets>>

\* clients without the test of its first line: an unregistered name gets
\* the undefined entry back and no error.
clients_NoCheck(device) ==
    /\ sent' = <<>>
    /\ last' = Op("clients", "")
    /\ UNCHANGED <<legacyVars, now, stateVars>>

\* clients(device): the list of the device, or the unknown-device error.
clients(device) ==
    /\ sent' = <<>>
    /\ last' = Op("clients",
                  IF device \notin DOMAIN _targets THEN "Unknown device" ELSE "")
    /\ UNCHANGED <<legacyVars, now, stateVars>>

\* The value clients(device) returns for a registered device.
clientsResult(device) == _targets[device]

\* A caller calls clients(device) for a registered device and keeps the
\* array it returns.
callerKeeps(device) ==
    /\ device \in DOMAIN _targets
    /\ held' = [device |-> device, live |-> TRUE, items |-> <<>>]
    /\ sent' = <<>>
    /\ last' = Op("callerKeeps", "")
    /\ UNCHANGED <<legacyVars, now, _devices, _targets, _interval, timers,
                   binding, sockets>>

\* The caller takes the last element off the array it holds (pop).
callerPops ==
    /\ held.device # ""
    /\ Len(Observed) >= 1
    /\ IF held.live
       THEN /\ _targets' = [_targets EXCEPT ![held.device] =
                               SubSeq(@, 1, Len(@) - 1)]
            /\ UNCHANGED held
       ELSE /\ held' = [held EXCEPT !.items = SubSeq(@, 1, Len(@) - 1)]
            /\ UNCHANGED _targets
    /\ sent' = <<>>
    /\ last' = Op("callerPops", "")
    /\ UNCHANGED <<legacyVars, now, _devices, _interval, timers, binding, sockets>>

\* One socket.send call.
Send(socket, message, port, ip) ==
    [socket |-> socket, message |-> message, port |-> port, ip |-> ip]

\* logSend throwing the error it was given.
logSend_Throws(address, port, error) ==
    /\ \E k \in 1..Len(sent) : sent[k].ip = address /\ sent[k].port = port
    /\ last' = [Op("logSend", IF error # "null" THEN error ELSE "")
                   EXCEPT !.calls = IF error # "null"
                                    THEN <<"console.error", "console.error">>
                                    ELSE <<>>]
    /\ UNCHANGED <<legacyVars, now, stateVars, sent>>

\* The callback logSend(address, port) returns, run by the transport for a
\* send the last callback issued: an error is logged, in two lines, and the
\* callback returns.
logSend(address, port, error) ==
    /\ \E k \in 1..Len(sent) : sent[k].ip = address /\ sent[k].port = port
    /\ last' = [Op("logSend", "")
                   EXCEPT !.calls = IF error # "null"
                                    THEN <<"console.error", "console.error">>
                                    ELSE <<>>]
    /\ UNCHANGED <<legacyVars, now, stateVars, sent>>

\* receiveSends reading the list of the first device whatever the source.
receiveSends_FirstDevice(source, list, message) ==
    LET first == _targets[_devices[1].name]
    IN  [i \in 1..Len(first) |->
            Send(source.socket, message, first[i].port, first[i].ip)]

\* receiveSends leaving out the targets whose timeout has elapsed.
receiveSends_LiveOnly(source, list, message) ==
    LET live == SelectSeq(list, LAMBDA e : now - e.checkin < config.timeout * MsPerMinute)
    IN  [i \in 1..Len(live) |->
            Send(source.socket, message, live[i].port, live[i].ip)]

\* receiveSends falling back to the targets of all devices when the list of
\* the source is empty.
receiveSends_Fallback(source, list, message) ==
    LET all  == [i \in 1..Len(_devices) |-> _targets[_devices[i].name]]
        flat == IF list # <<>> THEN list
                ELSE IF Len(all) = 0 THEN <<>>
                ELSE IF Len(all) = 1 THEN all[1]
                ELSE all[1] \o all[2]
    IN  [i \in 1..Len(flat) |->
            Send(source.socket, message, flat[i].port, flat[i].ip)]

\* The sends receive issues for one list of targets.
receiveSends(source, list, message) ==
    [i \in 1..Len(list) |-> Send(source.socket, message, list[i].port, list[i].ip)]

\* receive(source, message): the 'message' handler of a bound socket.
receive(source, message) ==
    /\ \E i \in 1..Len(_devices) : _devices[i] = source
    /\ sent' = IF source.name \notin DOMAIN _targets THEN <<>>
               ELSE receiveSends(source, _targets[source.name], message)
    /\ last' = Op("receive", "")
    /\ UNCHANGED <<legacyVars, now, held, _devices, _targets, _interval, timers, binding, sockets>>

\* checkin going over the devices of the configuration, bound or not.
checkin_Configured ==
    [i \in 1..Len(config.x32) |->
        Send(i, XRemote, config.x32[i].port, config.x32[i].ip)]

\* checkin sending every packet through the socket of the first device.
checkin_FirstSocket ==
    [i \in 1..Len(_devices) |->
        Send(_devices[1].socket, XRemote, _devices[i].port, _devices[i].ip)]

\* checkin(): one /xremote packet per entry of _devices.
checkin ==
    [i \in 1..Len(_devices) |->
        Send(_devices[i].socket, XRemote, _devices[i].port, _devices[i].ip)]

\* cleanupKeeps taking config.timeout for hours.
cleanupKeeps_Hours(checkin_, time) ==
    time - checkin_ < config.timeout * 60 * MsPerMinute

\* cleanupKeeps taking config.timeout for seconds.
cleanupKeeps_Seconds(checkin_, time) ==
    time - checkin_ < config.timeout * 1000

\* cleanupKeeps with the comparison off by one (<= for <).
cleanupKeeps_Inclusive(checkin_, time) ==
    time - checkin_ <= config.timeout * MsPerMinute

\* The predicate of the filter in cleanup: the entries that are kept.
cleanupKeeps(checkin_, time) ==
    time - checkin_ < config.timeout * MsPerMinute

\* cleanupFrom taking at most one expired entry off each list in a pass.
cleanupFrom_FirstExpired(t, i, time) ==
    [n \in DOMAIN t |->
        LET old == {k \in 1..Len(t[n]) : ~cleanupKeeps(t[n][k].checkin, time)}
        IN  IF old = {} THEN t[n]
            ELSE LET f == CHOOSE k \in old : \A j \in old : k <= j
                 IN  SubSeq(t[n], 1, f - 1) \o SubSeq(t[n], f + 1, Len(t[n]))]

\* cleanup(): the loop over this.devices, from position i on.  A device
\* whose name has no list ends the loop: filter of undefined throws.
RECURSIVE cleanupFrom(_, _, _)
cleanupFrom(t, i, time) ==
    IF i > Len(_devices) THEN t
    ELSE LET name == _devices[i].name
         IN  IF name \notin DOMAIN t THEN t
             ELSE cleanupFrom(
                 [t EXCEPT ![name] =
                     SelectSeq(@, LAMBDA e : cleanupKeeps(e.checkin, time))],
                 i + 1, time)

cleanup == cleanupFrom(_targets, 1, now)

\* The error cleanup() ends with on the collections t ("" if none).
cleanupError(t) ==
    IF \E i \in 1..Len(_devices) : _devices[i].name \notin DOMAIN t
    THEN "TypeError" ELSE ""

\* launch without the test of its first line: a timer is installed
\* whatever _interval holds, and the earlier one keeps running.
launch_NoGuard ==
    /\ sent' = <<>>
    /\ LET id == CHOOSE t \in 1..(Cardinality(timers) + 1) : t \notin timers
       IN  /\ _interval' = id
           /\ timers' = timers \cup {id}
           /\ last' = Op("launch", "")
    /\ UNCHANGED <<legacyVars, now, held, _devices, _targets, binding, sockets>>

\* launch()
launch ==
    /\ sent' = <<>>
    /\ IF _interval # Undefined
       THEN /\ last' = Op("launch", "Interval has already been launched")
            /\ UNCHANGED <<_interval, timers>>
       ELSE LET id == CHOOSE t \in 1..(Cardinality(timers) + 1) : t \notin timers
            IN  /\ _interval' = id
                /\ timers' = timers \cup {id}
                /\ last' = Op("launch", "")
    /\ UNCHANGED <<legacyVars, now, held, _devices, _targets, binding, sockets>>

\* stop without the test of its first line: clearInterval(undefined) is
\* a no-op and the call returns normally.
stop_NoGuard ==
    /\ sent' = <<>>
    /\ timers' = timers \ {_interval}
    /\ _interval' = Undefined
    /\ last' = Op("stop", "")
    /\ UNCHANGED <<legacyVars, now, held, _devices, _targets, binding, sockets>>

\* stop that forgets the handle without calling clearInterval.
stop_KeepsTimer ==
    /\ sent' = <<>>
    /\ IF _interval = Undefined
       THEN /\ last' = Op("stop",
                          "Interval has not been set, have you called launch()")
            /\ UNCHANGED <<_interval, timers>>
       ELSE /\ UNCHANGED timers
            /\ _interval' = Undefined
            /\ last' = Op("stop", "")
    /\ UNCHANGED <<legacyVars, now, held, _devices, _targets, binding, sockets>>

\* stop that clears the timer and leaves the handle in _interval.
stop_KeepsHandle ==
    /\ sent' = <<>>
    /\ IF _interval = Undefined
       THEN /\ last' = Op("stop",
                          "Interval has not been set, have you called launch()")
            /\ UNCHANGED <<_interval, timers>>
       ELSE /\ timers' = timers \ {_interval}
            /\ UNCHANGED _interval
            /\ last' = Op("stop", "")
    /\ UNCHANGED <<legacyVars, now, held, _devices, _targets, binding, sockets>>

\* stop()
stop ==
    /\ sent' = <<>>
    /\ IF _interval = Undefined
       THEN /\ last' = Op("stop",
                          "Interval has not been set, have you called launch()")
            /\ UNCHANGED <<_interval, timers>>
       ELSE /\ timers' = timers \ {_interval}
            /\ _interval' = Undefined
            /\ last' = Op("stop", "")
    /\ UNCHANGED <<legacyVars, now, held, _devices, _targets, binding, sockets>>

\* The interval callback with its two statements exchanged.
tickBody_SweepFirst == <<"cleanup", "checkin">>

\* The statements of the callback given to setInterval, in program order.
tickBody == <<"checkin", "cleanup">>

\* One statement of the callback, run on the sends issued so far, the
\* collections as they are by now and the calls made so far; err is the
\* error the statement threw.
RunCall(call, st) ==
    IF call = "checkin"
    THEN [st EXCEPT !.sent = @ \o checkin, !.calls = Append(@, call)]
    ELSE [st EXCEPT !.targets = cleanupFrom(@, 1, now),
                    !.err = cleanupError(st.targets),
                    !.calls = Append(@, call)]

\* The statements run in order until one throws.
RECURSIVE RunCalls(_, _)
RunCalls(body, st) ==
    IF body = <<>> \/ st.err # "" THEN st
    ELSE RunCalls(Tail(body), RunCall(Head(body), st))

\* The callback given to setInterval in launch: checkin(), then cleanup(),
\* with no await between them.
tick(timer) ==
    /\ timer \in timers
    /\ LET end == RunCalls(tickBody,
                           [sent |-> <<>>, targets |-> _targets,
                            calls |-> <<>>, err |-> ""])
       IN  /\ sent' = end.sent
           /\ _targets' = end.targets
           /\ held' = IF /\ \E k \in 1..Len(end.calls) : end.calls[k] = "cleanup"
                         /\ \E i \in 1..Len(_devices) : _devices[i].name = held.device
                         /\ held.device \in DOMAIN _targets
                      THEN heldAfterFilter(held, _targets[held.device],
                               [i \in 1..Len(_targets[held.device]) |->
                                   cleanupKeeps(_targets[held.device][i].checkin, now)])
                      ELSE held
           /\ last' = [Op("tick", end.err) EXCEPT !.calls = end.calls]
    /\ UNCHANGED <<legacyVars, now, _devices, _interval, timers, binding, sockets>>

\* Date.now() moves on between two callbacks.
advance(step) ==
    /\ now' = now + step
    /\ UNCHANGED <<stateVars, legacyVars, sent, last>>

\* ------------------------------------------------- legacy entry point

\* deviceToID: `${name}#${ip}#${port}`, kept as its three components (a
\* name matches ^[A-Za-z0-9_-]+$, so split('#') gives them back).
deviceToID(device) == <<device.name, device.ip, device.port>>

\* The keys of reflectorTargets in insertion order: each bind callback
\* pushes the device and sets its key in the same step.
RECURSIVE keysFrom(_, _)
keysFrom(i, seen) ==
    IF i > Len(x32Devices) THEN <<>>
    ELSE LET k == deviceToID(x32Devices[i])
         IN  IF k \in seen THEN keysFrom(i + 1, seen)
             ELSE <<k>> \o keysFrom(i + 1, seen \cup {k})

keys == keysFrom(1, {})

\* The null that findKeyOrFail returns when no key matches.
Null == <<>>

\* findKeyOrFail: the first key whose ip and port equal the request, or
\* Null (after writing the error response).
findKeyOrFail(x32IP, x32Port) ==
    LET hits == SelectSeq(keys, LAMBDA k : k[2] = x32IP /\ k[3] = x32Port)
    IN  IF hits = <<>> THEN Null ELSE Head(hits)

\* The bind callback of the startup code.
index_bound(mapping) ==
    /\ mapping \in x32Binding
    /\ x32Binding' = x32Binding \ {mapping}
    /\ x32Devices' = Append(x32Devices, mapping)
    /\ reflectorTargets' =
           [k \in DOMAIN reflectorTargets \cup {deviceToID(mapping)} |->
               IF k = deviceToID(mapping) THEN <<>> ELSE reflectorTargets[k]]
    /\ sent' = <<>>
    /\ last' = Op("index_bound", "")
    /\ UNCHANGED <<stateVars, now, startup>>

\* A socket raises 'error' before its bind callback: its promise rejects,
\* and so does Promise.all.
index_bindError(mapping) ==
    /\ mapping \in x32Binding
    /\ x32Binding' = x32Binding \ {mapping}
    /\ startup' = IF startup = "binding" THEN "rejected" ELSE startup
    /\ sent' = <<>>
    /\ last' = Op("index_bindError", "bind error")
    /\ UNCHANGED <<stateVars, now, reflectorTargets, x32Devices>>

\* x32Checkin(): one /xremote packet per entry of x32Devices.
x32Checkin ==
    [i \in 1..Len(x32Devices) |->
        Send(x32Devices[i].socket, XRemote, x32Devices[i].port, x32Devices[i].ip)]

\* After `await Promise.all(promises)`: both intervals are set and
\* x32Checkin() is called once.
index_started ==
    /\ startup = "binding"
    /\ x32Binding = {}
    /\ startup' = "running"
    /\ sent' = x32Checkin
    /\ last' = Op("index_started", "")
    /\ UNCHANGED <<stateVars, now, reflectorTargets, x32Devices, x32Binding>>

\* The 9000 ms interval: x32Checkin().
index_checkinTick ==
    /\ startup = "running"
    /\ sent' = x32Checkin
    /\ last' = Op("x32Checkin", "")
    /\ UNCHANGED <<stateVars, legacyVars, now>>

\* The predicate of the filter in the legacy cleanup.
index_cleanupKeeps(created, time) ==
    time - created < config.timeout * MsPerMinute

\* The 60000 ms interval: cleanup(config)().
index_cleanup ==
    /\ startup = "running"
    /\ reflectorTargets' =
           [k \in DOMAIN reflectorTargets |->
               SelectSeq(reflectorTargets[k],
                         LAMBDA e : index_cleanupKeeps(e[3], now))]
    /\ sent' = <<>>
    /\ last' = Op("index_cleanup", "")
    /\ UNCHANGED <<stateVars, now, x32Devices, x32Binding, startup>>

\* onReceiveFromX32(device)(message)
onReceiveFromX32(device, message) ==
    /\ \E i \in 1..Len(x32Devices) : x32Devices[i] = device
    /\ sent' = LET list == reflectorTargets[deviceToID(device)]
               IN  [i \in 1..Len(list) |->
                       Send(device.socket, message, list[i][2], list[i][1])]
    /\ last' = Op("onReceiveFromX32", "")
    /\ UNCHANGED <<stateVars, legacyVars, now>>

\* index_registerFinds with the look-up left out, as in State.redirect.
index_registerFinds_Omitted(list, ip, port) ==
    FALSE

\* The test of the find in the legacy register: is the pair there already?
index_registerFinds(list, ip, port) ==
    \E i \in 1..Len(list) : list[i][1] = ip /\ list[i][2] = port

\* register(x32IP, x32Port, ip, port, res)
index_register(x32IP, x32Port, ip, port) ==
    LET key == findKeyOrFail(x32IP, x32Port)
    IN  /\ sent' = <<>>
        /\ IF key = Null
           THEN /\ last' = Op("index_register", "Unknown X32 IP and Port combination")
                /\ UNCHANGED reflectorTargets
           ELSE IF index_registerFinds(reflectorTargets[key], ip, port)
           THEN /\ last' = Op("index_register",
                              "Device is already registered on this device")
                /\ UNCHANGED reflectorTargets
           ELSE /\ reflectorTargets' = [reflectorTargets EXCEPT ![key] =
                       Append(@, <<ip, port, now>>)]
                /\ last' = Op("index_register", "")
        /\ UNCHANGED <<stateVars, now, x32Devices, x32Binding, startup>>

\* The predicate of the filter in the legacy remove: the entries kept.
index_removeKeeps(entry, ip, port) ==
    entry[1] # ip /\ entry[2] # port

\* remove(x32IP, x32Port, ip, port, res)
index_remove(x32IP, x32Port, ip, port) ==
    LET key == findKeyOrFail(x32IP, x32Port)
    IN  /\ sent' = <<>>
        /\ IF key = Null
           THEN /\ last' = Op("index_remove", "Unknown X32 IP and Port combination")
                /\ UNCHANGED reflectorTargets
           ELSE LET originalLength == Len(reflectorTargets[key])
                    after == SelectSeq(reflectorTargets[key],
                                 LAMBDA e : index_removeKeeps(e, ip, port))
                IN  /\ reflectorTargets' = [reflectorTargets EXCEPT ![key] = after]
                    /\ last' = Op("index_remove",
                                  IF originalLength = Len(after)
                                  THEN "Unknown IP and Port combination" ELSE "")
        /\ UNCHANGED <<stateVars, now, x32Devices, x32Binding, startup>>

\* The index of the first entry of list with the given ip and port, or 0.
index_find(list, ip, port) ==
    LET hits == {i \in 1..Len(list) : list[i][1] = ip /\ list[i][2] = port}
    IN  IF hits = {} THEN 0 ELSE CHOOSE i \in hits : \A j \in hits : i <= j

\* renew(x32IP, x32Port, ip, port, res)
index_renew(x32IP, x32Port, ip, port) ==
    LET key == findKeyOrFail(x32IP, x32Port)
    IN  /\ sent' = <<>>
        /\ IF key = Null
           THEN /\ last' = Op("index_renew", "Unknown X32 IP and Port combination")
                /\ UNCHANGED reflectorTargets
           ELSE LET find == index_find(reflectorTargets[key], ip, port)
                IN  IF find = 0
                    THEN /\ last' = Op("index_renew", "Unknown IP and Port combination")
                         /\ UNCHANGED reflectorTargets
                    ELSE /\ reflectorTargets' =
                                [reflectorTargets EXCEPT ![key][find][3] = now]
                         /\ last' = Op("index_renew", "")
        /\ UNCHANGED <<stateVars, now, x32Devices, x32Binding, startup>>

LegacyTotal == SumLen(reflectorTargets, DOMAIN reflectorTargets)

\* -------------------------------------------------------- specifications

\* The management interface, the sockets, the timer and the clock of State,
\* with inputs drawn from the given sets; they run while the process lives.
\* The interval callback may run at any time here: due is not used.
Events(names, ips, ports, steps, maxNow, maxTargets) ==
    \/ \E from \in names, to \in ips, port \in ports :
           ~exited /\ UNCHANGED due /\ TotalTargets < maxTargets /\ redirect(from, to, port)
    \/ \E from \in names, to \in ips, port \in ports :
           ~exited /\ UNCHANGED due /\ unredirect(from, to, port)
    \/ \E from \in names, to \in ips, port \in ports :
           ~exited /\ UNCHANGED due /\ renew(from, to, port)
    \/ \E device \in names : ~exited /\ UNCHANGED due /\ clients(device)
    \/ \E i \in 1..Len(_devices), m \in Messages :
           ~exited /\ UNCHANGED due /\ receive(_devices[i], m)
    \/ \E e \in binding : ~exited /\ UNCHANGED due /\ registerBound(e)
    \/ \E e \in binding : ~exited /\ UNCHANGED due /\ registerFailed(e)
    \/ ~exited /\ UNCHANGED due /\ launch
    \/ ~exited /\ UNCHANGED due /\ stop
    \/ \E t \in timers : ~exited /\ UNCHANGED due /\ tick(t)
    \/ \E step \in steps : ~exited /\ UNCHANGED due /\ now + step <= maxNow /\ advance(step)

\* class State under the management inputs.
Next == Events(DeviceNames, Ips, Ports, ClockSteps, MaxNow, MaxTargets)

Spec == Init /\ [][Next]_vars

\* class State in the expiry scenarios: one subscriber address, a clock that
\* reaches the deadlines of the scenarios and their neighbours.
TimeNext ==
    Events({"Primary", "Secondary"}, {"127.0.0.1"}, {9000},
           TimeSteps, TimeMaxNow, TimeMaxTargets)

TimeSpec == Init /\ [][TimeNext]_vars

\* class State with register() called at run time: one subscriber address
\* on the device Primary, devices registered under a taken and a new name,
\* and a runtime that may end the process on an unhandled rejection.
RegistryNext ==
    \/ Events({"Primary"}, {"127.0.0.1"}, {9000},
              ClockSteps, MaxNow, RegistryMaxTargets)
    \/ \E device \in RegisterInputs :
           ~exited /\ UNCHANGED due /\ sockets < MaxSockets /\ register(device)
    \/ \E e \in binding : ~exited /\ UNCHANGED due /\ registerFailedExit(e)

RegistrySpec == Init /\ [][RegistryNext]_vars

\* class State in the fair runs: one subscriber address on the device
\* Primary.
LiveNext ==
    Events({"Primary"}, {"127.0.0.1"}, {9000}, {LiveStep}, LiveMaxNow, LiveMaxTargets)

\* The interval callback of an active timer: setInterval keeps firing it.
Ticks == \E t \in timers : UNCHANGED due /\ tick(t)

\* The clock moves on as long as the bound lets it.
ClockMoves == now + LiveStep <= LiveMaxNow /\ UNCHANGED due /\ advance(LiveStep)

\* A timer that stays active fires again and again, and time passes.
LiveSpec ==
    /\ Init
    /\ [][LiveNext]_vars
    /\ WF_vars(Ticks)
    /\ WF_vars(ClockMoves)

\* class State in the forwarding scenario: two subscriber addresses on the
\* device Primary, and the callbacks of the sends.
ForwardNext ==
    \/ Events({"Primary"}, Ips, {9000}, ClockSteps, MaxNow, ForwardMaxTargets)
    \/ \E k \in 1..Len(sent), error \in SendErrors :
           ~exited /\ UNCHANGED due /\ logSend(sent[k].ip, sent[k].port, error)

ForwardSpec == Init /\ [][ForwardNext]_vars

\* class State with a caller that keeps the array clients() returned and may
\* modify it: one subscriber address on the device Primary.
AliasNext ==
    \/ Events({"Primary"}, {"127.0.0.1"}, {9000},
              ClockSteps, MaxNow, AliasMaxTargets)
    \/ ~exited /\ UNCHANGED due /\ callerKeeps("Primary")
    \/ ~exited /\ UNCHANGED due /\ callerPops

AliasSpec == Init /\ [][AliasNext]_vars

\* class State with two subscriber addresses on each of two devices and
\* collections long enough for an entry to leave while two others stay.
OrderNext ==
    Events({"Primary", "Secondary"}, Ips, {9000}, ClockSteps, MaxNow, OrderMaxTargets)

OrderSpec == Init /\ [][OrderNext]_vars

\* class State behind the /register route and the router: one subscriber
\* address on the device Primary.
RouteNext ==
    \/ Events({"Primary"}, {"127.0.0.1"}, {9000}, ClockSteps, MaxNow, RouteMaxTargets)
    \/ \E device \in {"Primary", "Unknown"} :
           ~exited /\ UNCHANGED due /\ TotalTargets < RouteMaxTargets
                   /\ handle("127.0.0.1", 9000, device)
    \/ \E req \in Requests :
           ~exited /\ UNCHANGED due /\ TotalTargets < RouteMaxTargets /\ incoming(req)

RouteSpec == Init /\ [][RouteNext]_vars

\* class State with the interval timed: launch arms the timer for Period
\* milliseconds later, the callback runs when that time has come, at most
\* MaxLate late, and arms it again, and stop disarms it.  One subscriber
\* address on the device Primary.
TimedNext ==
    \/ \E to \in {"127.0.0.1"}, port \in {9000} :
           ~exited /\ UNCHANGED due /\ TotalTargets < TimedMaxTargets
                   /\ redirect("Primary", to, port)
    \/ \E to \in {"127.0.0.1"}, port \in {9000} :
           ~exited /\ UNCHANGED due /\ unredirect("Primary", to, port)
    \/ \E to \in {"127.0.0.1"}, port \in {9000} :
           ~exited /\ UNCHANGED due /\ renew("Primary", to, port)
    \/ \E i \in 1..Len(_devices) :
           ~exited /\ UNCHANGED due /\ receive(_devices[i], "m1")
    \/ \E e \in binding : ~exited /\ UNCHANGED due /\ registerBound(e)
    \/ /\ ~exited
       /\ launch
       /\ due' = IF _interval = Undefined THEN now + Period ELSE due
    \/ /\ ~exited
       /\ stop
       /\ due' = IF _interval # Undefined THEN 0 ELSE due
    \/ \E t \in timers :
           ~exited /\ now >= due /\ tick(t) /\ due' = now + Period
    \/ \E step \in TimedSteps :
           /\ ~exited
           /\ now + step <= TimedMaxNow
           /\ timers = {} \/ now + step <= due + MaxLate
           /\ advance(step)
           /\ UNCHANGED due

TimedSpec == Init /\ [][TimedNext]_vars

\* The legacy entry point.
LegacyNext ==
    \/ \E m \in x32Binding : UNCHANGED due /\ index_bound(m)
    \/ \E m \in x32Binding : UNCHANGED due /\ index_bindError(m)
    \/ UNCHANGED due /\ index_started
    \/ UNCHANGED due /\ index_checkinTick
    \/ UNCHANGED due /\ index_cleanup
    \/ \E i \in 1..Len(x32Devices), m \in Messages :
           UNCHANGED due /\ onReceiveFromX32(x32Devices[i], m)
    \/ \E x32IP \in X32Ips, x32Port \in X32Ports, ip \in Ips, port \in Ports :
           UNCHANGED due /\ LegacyTotal < MaxTargets /\ index_register(x32IP, x32Port, ip, port)
    \/ \E x32IP \in X32Ips, x32Port \in X32Ports, ip \in Ips, port \in Ports :
           UNCHANGED due /\ index_remove(x32IP, x32Port, ip, port)
    \/ \E x32IP \in X32Ips, x32Port \in X32Ports, ip \in Ips, port \in Ports :
           UNCHANGED due /\ index_renew(x32IP, x32Port, ip, port)
    \/ \E step \in ClockSteps : UNCHANGED due /\ now + step <= MaxNow /\ advance(step)

LegacySpec == Init /\ [][LegacyNext]_vars

\* ---------------------------------------------------------------- claims

\* config.timeout minutes in milliseconds.
Ttl == config.timeout * MsPerMinute

\* Does entry e of a State collection stand for the pair (to, port)?
IsPair(e, to, port) == e.ip = to /\ e.port = port

\* The positions of list whose entry stands for (to, port).
Positions(list, to, port) == {i \in 1..Len(list) : IsPair(list[i], to, port)}

\* The first position of list whose entry stands for (to, port).
FirstPosition(list, to, port) ==
    CHOOSE i \in Positions(list, to, port) :
        \A j \in Positions(list, to, port) : i <= j

\* list without its entry at position k.
WithoutPosition(list, k) ==
    [i \in 1..(Len(list) - 1) |-> IF i < k THEN list[i] ELSE list[i + 1]]

\* The number of sends of a log that go to (ip, port).
SendsTo(log, ip, port) ==
    Cardinality({i \in 1..Len(log) : log[i].ip = ip /\ log[i].port = port})

\* The step is a call of op: the clock stands still and op is recorded (a
\* clock step leaves the record of the call before it in place).
Called(op) == last'.op = op /\ now' = now

\* C1: redirect for a registered device and a pair already in its collection
\* is rejected with an error and leaves the collection as it was.
C1_RedirectRejectsDuplicate ==
    [][Called("redirect") => \A from \in DeviceNames, to \in Ips, port \in Ports :
          ( /\ redirect(from, to, port)
            /\ from \in DOMAIN _targets
            /\ Positions(_targets[from], to, port) # {} )
          => (last'.err # "" /\ _targets' = _targets)]_vars

\* C3: a sweep keeps exactly the entries with now - checkin < ttl: every
\* such entry of every registered device is still there after the tick,
\* every entry with now - checkin >= ttl is gone, and nothing else changes.
C3_SweepRemovesIffExpired ==
    [][Called("tick") =>
          /\ DOMAIN _targets' = DOMAIN _targets
          /\ \A d \in DOMAIN _targets :
                /\ \A i \in 1..Len(_targets[d]) :
                      /\ now - _targets[d][i].checkin < Ttl
                            => _targets[d][i] \in Range(_targets'[d])
                      /\ now - _targets[d][i].checkin >= Ttl
                            => _targets[d][i] \notin Range(_targets'[d])
                /\ Range(_targets'[d]) \subseteq Range(_targets[d])
                /\ Len(_targets'[d]) =
                      Cardinality({i \in 1..Len(_targets[d]) :
                                      now - _targets[d][i].checkin < Ttl})]_vars

\* C3 witness: a sweep has run and left an entry that is one millisecond
\* short of its deadline.
C3_Witness ==
    /\ last.op = "tick"
    /\ \E d \in DOMAIN _targets : \E i \in 1..Len(_targets[d]) :
          now - _targets[d][i].checkin = Ttl - 1

\* C4: with a timeout of 1 minute, a renewal at 30 s moves the entry's
\* checkin from 0 to 30 s; a sweep at 65 s keeps every entry renewed at 30 s
\* and drops those still at 0; a sweep at 95 s drops those renewed at 30 s.
C4_DeadlineFromLatestRenewal ==
    [][/\ (Called("renew") /\ last'.err = "" /\ now = 30000) =>
            \E d \in DOMAIN _targets : \E i \in 1..Len(_targets[d]) :
                /\ _targets'[d][i].checkin = 30000
                /\ \A j \in 1..Len(_targets[d]) :
                      _targets'[d][j].checkin \in {_targets[d][j].checkin, 30000}
       /\ (Called("tick") /\ now = 65000) =>
            \A d \in DOMAIN _targets : \A i \in 1..Len(_targets[d]) :
                /\ _targets[d][i].checkin = 30000
                      => _targets[d][i] \in Range(_targets'[d])
                /\ _targets[d][i].checkin = 0
                      => _targets[d][i] \notin Range(_targets'[d])
       /\ (Called("tick") /\ now = 95000) =>
            \A d \in DOMAIN _targets : \A e \in Range(_targets'[d]) :
                e.checkin # 30000]_vars

\* C4 witness: the sweep at 65 s has run and an entry renewed at 30 s is
\* still in its collection.
C4_Witness ==
    /\ last.op = "tick"
    /\ now = 65000
    /\ \E d \in DOMAIN _targets : \E e \in Range(_targets[d]) : e.checkin = 30000

\* C5: a datagram received on a device's socket is sent once per entry of
\* that device's collection, to the entry's address and port, unmodified and
\* through that device's socket; no other send is issued.
C5_ForwardToOwnTargetsOnly ==
    [][Called("receive") => \A i \in 1..Len(_devices), m \in Messages :
          receive(_devices[i], m) =>
            /\ \A ip \in Ips, port \in Ports :
                  SendsTo(sent', ip, port) =
                      Cardinality(Positions(_targets[_devices[i].name], ip, port))
            /\ \A k \in 1..Len(sent') :
                  /\ sent'[k].message = m
                  /\ sent'[k].socket = _devices[i].socket
                  /\ sent'[k].ip \in Ips /\ sent'[k].port \in Ports]_vars

\* C5 witness: a datagram has been forwarded to a target while another
\* device holds a target that got no send.
C5_Witness ==
    /\ last.op = "receive"
    /\ Len(sent) >= 1
    /\ \E d \in DOMAIN _targets : \E e \in Range(_targets[d]) :
          SendsTo(sent, e.ip, e.port) = 0

\* C6: a successful unredirect removes exactly one entry, the first that
\* matches; every other entry, a later one with the same pair included,
\* stays where it was.
C6_UnredirectRemovesFirstOnly ==
    [][Called("unredirect") => \A from \in DeviceNames, to \in Ips, port \in Ports :
          (unredirect(from, to, port) /\ last'.err = "") =>
             _targets' = [_targets EXCEPT ![from] =
                 WithoutPosition(@, FirstPosition(@, to, port))]]_vars

\* C7: unredirect for a registered device and a pair that is not in its
\* collection fails with the unknown-target error and changes no collection.
C7_UnredirectUnknownTarget ==
    [][Called("unredirect") => \A from \in DeviceNames, to \in Ips, port \in Ports :
          ( /\ unredirect(from, to, port)
            /\ from \in DOMAIN _targets
            /\ Positions(_targets[from], to, port) = {} )
          => (last'.err = "Unknown redirect target" /\ _targets' = _targets)]_vars

\* C7 witness: unredirect has failed on an unknown target while the
\* collections hold entries.
C7_Witness ==
    /\ last.op = "unredirect"
    /\ last.err = "Unknown redirect target"
    /\ \E d \in DOMAIN _targets : _targets[d] # <<>>

\* C9: a successful renew sets checkin = now on the first matching entry
\* and changes nothing else in any collection.
C9_RenewFirstOnly ==
    [][Called("renew") => \A from \in DeviceNames, to \in Ips, port \in Ports :
          (renew(from, to, port) /\ last'.err = "") =>
             _targets' = [_targets EXCEPT
                 ![from][FirstPosition(_targets[from], to, port)].checkin = now]]_vars

\* C10: renew for a registered device and a pair that is not in its
\* collection fails with the unknown-target error and changes no collection
\* and no checkin.
C10_RenewUnknownTarget ==
    [][Called("renew") => \A from \in DeviceNames, to \in Ips, port \in Ports :
          ( /\ renew(from, to, port)
            /\ from \in DOMAIN _targets
            /\ Positions(_targets[from], to, port) = {} )
          => (last'.err = "Unknown redirect target" /\ _targets' = _targets)]_vars

\* C10 witness: renew has failed on an unknown target while the collections
\* hold entries.
C10_Witness ==
    /\ last.op = "renew"
    /\ last.err = "Unknown redirect target"
    /\ \E d \in DOMAIN _targets : _targets[d] # <<>>

\* C2: under the legacy register, no collection of reflectorTargets ever
\* holds two entries with the same ip and port.
C2_LegacyNoDuplicates ==
    \A k \in DOMAIN reflectorTargets :
        \A i, j \in 1..Len(reflectorTargets[k]) :
            ( /\ reflectorTargets[k][i][1] = reflectorTargets[k][j][1]
              /\ reflectorTargets[k][i][2] = reflectorTargets[k][j][2] )
            => i = j

\* C2 witness: the legacy register has refused a pair that was already in
\* the collection.
C2_Witness ==
    /\ last.op = "index_register"
    /\ last.err = "Device is already registered on this device"
    /\ LegacyTotal >= 1

UnknownDeviceOutcome ==
    /\ last'.err = "Unknown device"
    /\ _devices' = _devices
    /\ _targets' = _targets

C12_AddThenListExactlyOne ==
    [][Called("redirect") => \A from \in DeviceNames, to \in Ips, port \in Ports :
          (redirect(from, to, port) /\ last'.err = "") =>
             LET old  == clientsResult(from)
                 list == clientsResult(from)'
             IN  /\ Cardinality(Positions(list, to, port)) = 1
                 /\ Len(list) = Len(old) + 1
                 /\ SubSeq(list, 1, Len(old)) = old
                 /\ IsPair(list[Len(list)], to, port)
                 /\ list[Len(list)].checkin = now]_vars

\* a is b with some of its entries taken out: the entries that are left are
\* as they were and in the order they were.
RECURSIVE IsSubsequence(_, _)
IsSubsequence(a, b) ==
    IF a = <<>> THEN TRUE
    ELSE IF b = <<>> THEN FALSE
    ELSE IF Head(a) = Head(b) THEN IsSubsequence(Tail(a), Tail(b))
    ELSE IsSubsequence(a, Tail(b))

\* One step from the list old to the list new of a device: entries are
\* removed and the others untouched, or one entry is created behind the
\* others, or the same entries stay and no checkin has decreased.
CheckinsKept(old, new) ==
    IF Len(new) < Len(old) THEN IsSubsequence(new, old)
    ELSE IF Len(new) > Len(old)
    THEN /\ Len(new) = Len(old) + 1
         /\ SubSeq(new, 1, Len(old)) = old
    ELSE \A i \in 1..Len(old) :
            /\ new[i].ip = old[i].ip
            /\ new[i].port = old[i].port
            /\ new[i].checkin >= old[i].checkin

\* C13: the clock never goes back, and over every step (redirect, renew,
\* unredirect, receive, tick, bind completion, launch, stop) the checkin of
\* an entry that stays in its collection does not decrease.
C13_CheckinNeverDecreases ==
    [][/\ now' >= now
       /\ \A d \in DOMAIN _targets \cap DOMAIN _targets' :
             CheckinsKept(_targets[d], _targets'[d])]_vars

\* C13 witness: a renewal after the clock has moved has brought the entries
\* of one device to the current time while an entry of another device still
\* has its earlier checkin.
C13_Witness ==
    /\ last.op = "renew"
    /\ last.err = ""
    /\ now > 0
    /\ \E d, e \in DOMAIN _targets :
          /\ \E i \in 1..Len(_targets[d]) : _targets[d][i].checkin = now
          /\ \E j \in 1..Len(_targets[e]) : _targets[e][j].checkin < now

\* The scheduler states of the keep-alive timer.
Idle    == _interval = Undefined
Running == _interval # Undefined

\* C14: launch called while the scheduler is Running fails with an error;
\* the scheduler stays Running with the timer it had and no second timer is
\* installed.
C14_LaunchWhileRunningFails ==
    [][Called("launch") => ((launch /\ Running) =>
          /\ last'.err = "Interval has already been launched"
          /\ _interval' = _interval
          /\ timers' = timers
          /\ timers' = {_interval})]_vars

\* C14 witness: launch has failed and exactly the timer of _interval is
\* active.
C14_Witness ==
    /\ last.op = "launch"
    /\ last.err # ""
    /\ timers = {_interval}

\* C15: stop called while the scheduler is Idle fails with an error, and no
\* stop, failed or successful, changes the device list or a collection.
C15_StopWhileIdleFails ==
    [][Called("stop") => (stop =>
          /\ Idle => last'.err # ""
          /\ _devices' = _devices
          /\ _targets' = _targets)]_vars

\* C15 witness: stop has failed while devices are registered and hold
\* entries.
C15_Witness ==
    /\ last.op = "stop"
    /\ last.err # ""
    /\ _devices # <<>>
    /\ \E d \in DOMAIN _targets : _targets[d] # <<>>

\* C16: launch succeeds exactly when the scheduler is Idle and leaves it
\* Running with one timer; stop succeeds exactly when it is Running and
\* leaves it Idle with no timer, the state in which launch succeeds again.
C16_IdleRunningIdle ==
    [][/\ Called("launch") => (launch =>
             /\ last'.err = "" <=> Idle
             /\ last'.err = "" => (Running' /\ timers' = {_interval'})
             /\ last'.err # "" => UNCHANGED <<_interval, timers>>)
       /\ Called("stop") => (stop =>
             /\ last'.err = "" <=> Running
             /\ last'.err = "" => (Idle' /\ timers' = {})
             /\ last'.err # "" => UNCHANGED <<_interval, timers>>)]_vars

\* C16 witness: a stop has succeeded, so the scheduler has gone from Idle to
\* Running and back to Idle, with no timer left.
C16_Witness ==
    /\ last.op = "stop"
    /\ last.err = ""
    /\ Idle
    /\ timers = {}

\* C17: in every tick the keep-alive to every device is issued first and
\* the sweep runs second, on the collections the tick started with: the two
\* are one step, so no receive, management call or bind completion lies
\* between them, and the step changes nothing else.
C17_KeepAliveThenSweep ==
    [][Called("tick") =>
          /\ last'.calls = <<"checkin", "cleanup">>
          /\ Len(sent') = Len(_devices)
          /\ \A k \in 1..Len(sent') : sent'[k].message = XRemote
          /\ _targets' = cleanup
          /\ UNCHANGED <<_devices, _interval, timers, binding, now>>]_vars

\* C17 witness: a tick at 60 s has sent its keep-alives and its sweep has
\* left an entry in a collection.
C17_Witness ==
    /\ last.op = "tick"
    /\ last.calls = <<"checkin", "cleanup">>
    /\ now >= Ttl
    /\ Len(sent) >= 1
    /\ \E d \in DOMAIN _targets : _targets[d] # <<>>

\* C18: a tick sends exactly one keep-alive for each entry of the device
\* list, through the socket of that entry and to its ip and port, and
\* nothing else; a device whose registration completes is in the device
\* list from that step on, so the next tick includes it.
C18_OneKeepAlivePerDevice ==
    [][/\ Called("tick") =>
            /\ Len(sent') = Len(_devices)
            /\ \A i \in 1..Len(_devices) :
                  {k \in 1..Len(sent') : sent'[k].socket = _devices[i].socket}
                      = {i}
            /\ \A i \in 1..Len(_devices) :
                  sent'[i] = Send(_devices[i].socket, XRemote,
                                  _devices[i].port, _devices[i].ip)
       /\ Called("registerBound") =>
            \A e \in binding : registerBound(e) => e \in Range(_devices')
       /\ Range(_devices) \subseteq Range(_devices')]_vars

\* C18 witness: a tick has sent a keep-alive through the socket of a device
\* registered at run time, to that device's address.
C18_Witness ==
    /\ last.op = "tick"
    /\ \E k \in 1..Len(sent), device \in RegisterInputs :
          /\ sent[k].socket > Len(config.x32)
          /\ sent[k].ip = device.ip
          /\ sent[k].port = device.port

\* C20: a register call for a name that is already in the registry ends
\* with an error and leaves the registry as it was: no second entry of the
\* device list under that name, and the collection of that name keeps its
\* entries.
C20_RegisterRejectsTakenName ==
    [][Called("registerBound") => \A e \in binding :
          (registerBound(e) /\ e.name \in DOMAIN _targets) =>
             /\ last'.err # ""
             /\ _devices' = _devices
             /\ _targets' = _targets]_vars

\* The checkin times of the fair runs whose deadline the clock reaches.
LiveCheckins ==
    {c \in {k * LiveStep : k \in 0..(LiveMaxNow \div LiveStep)} :
        c + Ttl <= LiveMaxNow}

\* Does the collection of device d hold an entry with checkin c?
Holds(d, c) ==
    /\ d \in DOMAIN _targets
    /\ \E i \in 1..Len(_targets[d]) : _targets[d][i].checkin = c

\* C19: with a timer that keeps firing and a clock that moves on, an entry
\* does not stay in its collection with the same checkin for ever while the
\* scheduler is Running: it is removed by a sweep (or renewed, or taken out
\* by unredirect) unless the scheduler goes Idle; and a datagram is only
\* ever forwarded to a pair that is in the collection of the source device
\* when it arrives, so a removed target gets none.
C19_UnrenewedEventuallyRemoved ==
    /\ \A d \in {"Primary", "Secondary"}, c \in LiveCheckins :
          Holds(d, c) ~> (~Holds(d, c) \/ Idle)
    /\ [][Called("receive") => \A k \in 1..Len(sent') :
             \E d \in DOMAIN _targets : \E i \in 1..Len(_targets[d]) :
                 IsPair(_targets[d][i], sent'[k].ip, sent'[k].port)]_vars

\* C19 witness: a tick has emptied a collection at a time when the entries
\* created at 0 and never renewed are past their deadline, and the scheduler
\* is still Running.
C19_Witness ==
    /\ last.op = "tick"
    /\ Running
    /\ now >= Ttl
    /\ "Primary" \in DOMAIN _targets
    /\ _targets["Primary"] = <<>>

\* C21: in every reachable state the names of the entries of the device list
\* are pairwise distinct.
C21_DeviceNamesDistinct ==
    \A i, j \in 1..Len(_devices) :
        _devices[i].name = _devices[j].name => i = j

\* The sockets that were created and whose bind was rejected: they are
\* neither waiting for their bind nor in the device list.
FailedSockets ==
    {s \in 1..sockets :
        \A e \in binding \cup Range(_devices) : e.socket # s}

\* The bind of a device of the configuration has been rejected.
StartupBindFailed == \E s \in FailedSockets : s <= Len(config.x32)

\* C22: a rejected bind ends the register call with the bind error and adds
\* nothing to the device list or the collections; the device of a rejected
\* bind never enters the device list later and nothing is ever sent through
\* its socket; and once the bind of a configured device is rejected startup
\* is aborted: no launch succeeds, no tick runs and no datagram is forwarded.
C22_BindFailureAbortsStartup ==
    [][/\ (Called("registerFailed") \/ Called("exit")) =>
             /\ last'.err = "bind error"
             /\ _devices' = _devices
             /\ _targets' = _targets
       /\ FailedSockets \subseteq FailedSockets'
       /\ \A k \in 1..Len(sent') : sent'[k].socket \notin FailedSockets'
       /\ StartupBindFailed =>
             /\ ~Called("tick")
             /\ ~Called("receive")
             /\ ~(Called("launch") /\ last'.err = "")]_vars

C25_NoTargetsNoSendNoBuffer ==
    [][/\ Called("receive") => \A i \in 1..Len(_devices), m \in Messages :
             receive(_devices[i], m) =>
                /\ _targets[_devices[i].name] = <<>> => sent' = <<>>
                /\ \A k \in 1..Len(sent') : sent'[k].message = m
       /\ (now' = now /\ last'.op \notin {"receive", "logSend"}) =>
             \A k \in 1..Len(sent') : sent'[k].message \notin Messages]_vars

\* C25 witness: a datagram has arrived on a device without targets, and was
\* dropped, while another device holds a target.
C25_Witness ==
    /\ last.op = "receive"
    /\ sent = <<>>
    /\ \E d \in DOMAIN _targets : _targets[d] # <<>>

\* C26: the array a caller got from clients() is a snapshot: no later call
\* on the State changes what the caller reads in it, and the caller taking
\* an element off it changes no collection.
C26_ClientsReturnsSnapshot ==
    [][/\ (held.device # "" /\ last'.op \notin {"callerKeeps", "callerPops"})
             => Observed' = Observed
       /\ Called("callerPops") => _targets' = _targets]_vars

\* The number of entries of list whose deadline checkin + ttl lies after time.
Unexpired(list, time) ==
    Cardinality({i \in 1..Len(list) : time < list[i].checkin + Ttl})

\* C27: a redirect or renew that has returned has set the checkin of its
\* entry to the time of the call, and a sweep at time now removes no entry
\* with now < checkin + ttl: each of them is in the collection after the
\* sweep, as many times as before, whatever ran in between.
C27_SweepHonoursCompletedRenewal ==
    [][/\ (Called("redirect") /\ last'.err = "") =>
             \E d \in DOMAIN _targets :
                /\ Len(_targets'[d]) = Len(_targets[d]) + 1
                /\ _targets'[d][Len(_targets'[d])].checkin = now
       /\ (Called("renew") /\ last'.err = "") =>
             \E d \in DOMAIN _targets : \E i \in 1..Len(_targets[d]) :
                _targets'[d][i].checkin = now
       /\ Called("tick") =>
             \A d \in DOMAIN _targets :
                /\ Unexpired(_targets'[d], now) = Unexpired(_targets[d], now)
                /\ \A i \in 1..Len(_targets[d]) :
                      now < _targets[d][i].checkin + Ttl
                          => _targets[d][i] \in Range(_targets'[d])]_vars

\* C27 witness: a sweep has run and kept an entry added or renewed after
\* time 0 whose age is positive and below the timeout.
C27_Witness ==
    /\ last.op = "tick"
    /\ \E d \in DOMAIN _targets : \E i \in 1..Len(_targets[d]) :
          /\ _targets[d][i].checkin > 0
          /\ now - _targets[d][i].checkin > 0
          /\ now - _targets[d][i].checkin < Ttl

\* The target lists as checkin() leaves them when called in this state.
AfterCheckin ==
    RunCall("checkin", [sent |-> <<>>, targets |-> _targets,
                        calls |-> <<>>, err |-> ""]).targets

\* C28: receive and checkin leave every subscriber collection as it was
\* (same entries, same order, same checkin values), and a step that changes
\* the collection of a registered name is a redirect, an unredirect, a renew
\* or a tick with its sweep.
C28_OnlyRegistryOperationsChangeCollections ==
    [][/\ Called("receive") => _targets' = _targets
       /\ AfterCheckin = _targets
       /\ \A d \in DOMAIN _targets :
             (d \notin DOMAIN _targets' \/ _targets'[d] # _targets[d])
                 => /\ last'.op \in {"redirect", "unredirect", "renew", "tick"}
                    /\ now' = now]_vars

\* Is some entry of list at or past its timeout at time?
HasExpired(list, time) ==
    \E i \in 1..Len(list) : time - list[i].checkin >= Ttl

\* C29: the sweep of a collection is one step: across a tick a collection
\* is either left as it was or left with none of the entries that were
\* expired at that tick, so the receive, redirect, unredirect, renew and
\* clients calls that run before or after it never find a collection with
\* only part of its expired entries removed.
C29_SweepIsAtomicPerCollection ==
    [][Called("tick") =>
          \A d \in DOMAIN _targets :
             \/ _targets'[d] = _targets[d]
             \/ ~HasExpired(_targets'[d], now)]_vars

\* C29 witness: a caller held the array of a device with two expired
\* entries when the sweep ran; the array it holds still shows both and the
\* collection of the device shows neither.
C29_Witness ==
    /\ last.op = "tick"
    /\ held.device # "" /\ ~held.live
    /\ Len(Observed) >= 2
    /\ \A k \in 1..Len(Observed) : now - Observed[k].checkin >= Ttl
    /\ _targets[held.device] = <<>>

\* C30: no step takes an entry out of the device list or changes the name,
\* ip or port of one: after every step the list begins with the entries it
\* had before, in the same places.
C30_DevicesNeverRemovedNorChanged ==
    [][/\ Len(_devices') >= Len(_devices)
       /\ \A i \in 1..Len(_devices) :
             /\ _devices'[i].name = _devices[i].name
             /\ _devices'[i].ip = _devices[i].ip
             /\ _devices'[i].port = _devices[i].port]_vars

\* C30 witness: a device was registered at run time, targets were added and
\* a tick ran, and the first entry is still the first device of the
\* configuration.
C30_Witness ==
    /\ last.op = "tick"
    /\ Len(_devices) > Len(config.x32)
    /\ \E d \in DOMAIN _targets : _targets[d] # <<>>
    /\ _devices[1].name = config.x32[1].name
    /\ _devices[1].ip = config.x32[1].ip
    /\ _devices[1].port = config.x32[1].port

\* The (ip, port) pairs of list, in its order.
Pairs(list) == [i \in 1..Len(list) |-> <<list[i].ip, list[i].port>>]

\* C31: a collection is kept in insertion order: a successful redirect puts
\* its entry behind the entries already there, clients returns the list in
\* that order, renew leaves every pair at its position, and what unredirect
\* and the sweep leave is the old list with entries taken out, the others
\* in the order they had.
C31_InsertionOrderKept ==
    [][/\ \A d \in DOMAIN _targets : clientsResult(d) = _targets[d]
       /\ \A d \in DOMAIN _targets \cap DOMAIN _targets' :
             /\ (Called("redirect") /\ _targets'[d] # _targets[d]) =>
                    /\ Len(_targets'[d]) = Len(_targets[d]) + 1
                    /\ SubSeq(_targets'[d], 1, Len(_targets[d])) = _targets[d]
             /\ Called("renew") => Pairs(_targets'[d]) = Pairs(_targets[d])
             /\ (Called("unredirect") \/ Called("tick")) =>
                    IsSubsequence(_targets'[d], _targets[d])]_vars

\* C31 witness: an unredirect has taken an entry out of a collection of
\* three and the two that stay are entries of different addresses.
C31_Witness ==
    /\ last.op = "unredirect" /\ last.err = ""
    /\ \E d \in DOMAIN _targets :
          /\ Len(_targets[d]) = 2
          /\ _targets[d][1].ip # _targets[d][2].ip

\* Every collection but that of the device from is the same after the step.
OthersUntouched(from) ==
    \A d \in DOMAIN _targets : d # from =>
        (d \in DOMAIN _targets' /\ _targets'[d] = _targets[d])

\* C32: a redirect, unredirect or renew on one device leaves the collection
\* of every other device as it was, entries for the same (ip, port) pair and
\* their checkin values included.
C32_OtherDevicesUntouched ==
    [][\A from \in DeviceNames, to \in Ips, port \in Ports :
          /\ (Called("redirect") /\ redirect(from, to, port)) => OthersUntouched(from)
          /\ (Called("unredirect") /\ unredirect(from, to, port)) => OthersUntouched(from)
          /\ (Called("renew") /\ renew(from, to, port)) => OthersUntouched(from)]_vars

\* C32 witness: the same pair is in the collections of two devices and a
\* renew has moved the checkin of one of the two entries only.
C32_Witness ==
    /\ last.op = "renew" /\ last.err = ""
    /\ \E d1 \in DOMAIN _targets, d2 \in DOMAIN _targets :
          /\ d1 # d2
          /\ \E i \in 1..Len(_targets[d1]), j \in 1..Len(_targets[d2]) :
                /\ _targets[d1][i].ip = _targets[d2][j].ip
                /\ _targets[d1][i].port = _targets[d2][j].port
                /\ _targets[d1][i].checkin = now
                /\ _targets[d2][j].checkin < now

\* Does some legacy collection hold an entry at or past its timeout at time?
LegacyHasExpired(t, time) ==
    \E k \in DOMAIN t : \E i \in 1..Len(t[k]) : time - t[k][i][3] >= Ttl

\* C33: in the legacy entry point every keep-alive tick (the 9000 ms
\* interval running x32Checkin) also sweeps: after it no collection holds an
\* entry whose timeout has elapsed.
C33_LegacyCheckinTickSweeps ==
    [][Called("x32Checkin") => ~LegacyHasExpired(reflectorTargets', now)]_vars

\* C34: a call of the /register handler never ends with an error: when
\* State.redirect throws, the response is the failure redirect (307 to
\* /?error=<message>), and when it succeeds, the success redirect (307 to /).
C34_RegisterRouteCatchesErrors ==
    [][Called("handle") =>
          /\ last'.err = ""
          /\ last'.res.status = 307
          /\ IF _targets' # _targets
             THEN /\ Len(last'.res.location) = 2
                  /\ last'.res.location[2] = "/"
             ELSE /\ Len(last'.res.location) = 3
                  /\ last'.res.location[2] = "/?error="
                  /\ last'.res.location[3] = encodeURIComponent("Unknown device")]_vars

\* Does the request reach a GET route with every required parameter present
\* and valid?
Routable(req) ==
    /\ req.method = "GET" /\ req.hasUrl
    /\ Matching(req) # {}
    /\ \A i \in Matching(req) :
          queryError(_routes[i].queryValidator, 1, req.query) = ""

\* C35: incoming answers 405 only when the method of the request is not a
\* supported one, and a GET request that matches a registered GET route with
\* its required parameters present and valid reaches the handle function of
\* that route exactly once.
C35_RouterRejectsOnlyUnsupported ==
    [][Called("incoming") =>
          \A req \in Requests : incoming(req) =>
             /\ last'.res.status = 405 => req.method \notin SUPPORTED_METHODS
             /\ Routable(req) => last'.calls = <<"handle">>]_vars

\* The names of the devices of the list.
DeviceNameSet == {_devices[i].name : i \in 1..Len(_devices)}

\* C36: in every reachable state, binds pending or not, the names of the
\* device list are the keys of _targets, and cleanup would find a list for
\* every device it loops over.
C36_DeviceNamesAreTargetKeys ==
    /\ DeviceNameSet = DOMAIN _targets
    /\ cleanupError(_targets) = ""

\* C36 witness: a tick has run while one device was registered and the bind
\* of another was still pending.
C36_Witness ==
    /\ last.op = "tick"
    /\ binding # {}
    /\ Len(_devices) >= 1
    /\ \A e \in binding : e.name \notin DOMAIN _targets

\* The devices of the configuration whose bind is pending and that are not
\* in the device list.
Pending == {e \in binding : e.name \notin DeviceNameSet}

\* C37: while the bind of a configured device is pending the device is not
\* in the device list and has no collection; redirect, unredirect, renew
\* and clients for its name end with 'Unknown device'; and a tick sends
\* nothing to its address and nothing through its socket.
C37_PendingDeviceNotRegistered ==
    [][\A e \in Pending :
          /\ e.name \notin DOMAIN _targets
          /\ \A to \in Ips, port \in Ports :
                /\ (Called("redirect") /\ redirect(e.name, to, port))
                       => last'.err = "Unknown device"
                /\ (Called("unredirect") /\ unredirect(e.name, to, port))
                       => last'.err = "Unknown device"
                /\ (Called("renew") /\ renew(e.name, to, port))
                       => last'.err = "Unknown device"
          /\ (Called("clients") /\ clients(e.name)) => last'.err = "Unknown device"
          /\ Called("tick") =>
                \A k \in 1..Len(sent') :
                   /\ sent'[k].socket # e.socket
                   /\ ~(sent'[k].ip = e.ip /\ sent'[k].port = e.port)]_vars

\* C37 witness: a tick has sent a keep-alive to a registered device while
\* the bind of another configured device was still pending.
C37_Witness ==
    /\ last.op = "tick"
    /\ Pending # {}
    /\ Len(sent) >= 1

\* C38: whatever launch and stop calls have succeeded or failed, at most one
\* interval timer is active, and the scheduler is Running exactly when one
\* is, which is then the timer _interval holds.
C38_AtMostOneTimer ==
    /\ Cardinality(timers) <= 1
    /\ Running <=> Cardinality(timers) = 1
    /\ Running => timers = {_interval}

\* C38 witness: a stop has failed on an Idle scheduler, which has no timer.
C38_Witness ==
    /\ last.op = "stop"
    /\ last.err = "Interval has not been set, have you called launch()"
    /\ Cardinality(timers) = 0
    /\ now > 0

\* C39: while the scheduler is Idle (before the first launch and after a
\* successful stop) no tick runs, so no keep-alive is sent and no sweep
\* runs; only unredirect makes a collection shorter, whatever the age of
\* its entries; and a datagram received then is sent to every entry of the
\* collection of its device, expired ones included.
C39_IdleSchedulerNeverSweeps ==
    [][Idle =>
          /\ ~Called("tick")
          /\ last'.op # "unredirect" =>
                \A d \in DOMAIN _targets :
                   d \in DOMAIN _targets' /\ Len(_targets'[d]) >= Len(_targets[d])
          /\ Called("receive") =>
                \A i \in 1..Len(_devices), m \in Messages :
                   receive(_devices[i], m) =>
                      /\ Len(sent') = Len(_targets[_devices[i].name])
                      /\ \A j \in 1..Len(sent') :
                            /\ sent'[j].ip = _targets[_devices[i].name][j].ip
                            /\ sent'[j].port = _targets[_devices[i].name][j].port]_vars

\* C39 witness: with the scheduler Idle, a datagram has been forwarded to a
\* target whose timeout had elapsed.
C39_Witness ==
    /\ last.op = "receive"
    /\ Idle
    /\ Len(sent) >= 1
    /\ \E d \in DOMAIN _targets :
          /\ Len(_targets[d]) = Len(sent)
          /\ \E j \in 1..Len(sent) :
                /\ now - _targets[d][j].checkin >= Ttl
                /\ sent[j].ip = _targets[d][j].ip

\* What C40 says of an entry between its deadline and the sweep: a datagram
\* received is sent to every entry of the collection of its device, whatever
\* its age; a renew of a pair that is in the collection succeeds and sets its
\* checkin to the time of the call, whatever its age; and a sweep keeps
\* every entry whose deadline is still ahead.
ExpiredStillServed ==
    /\ Called("receive") =>
          \A i \in 1..Len(_devices), m \in Messages :
             receive(_devices[i], m) =>
                /\ Len(sent') = Len(_targets[_devices[i].name])
                /\ \A j \in 1..Len(sent') :
                      /\ sent'[j].ip = _targets[_devices[i].name][j].ip
                      /\ sent'[j].port = _targets[_devices[i].name][j].port
    /\ Called("renew") =>
          \A from \in DOMAIN _targets, to \in Ips, port \in Ports :
             (renew(from, to, port) /\ Positions(_targets[from], to, port) # {}) =>
                /\ last'.err = ""
                /\ \A i \in Positions(_targets[from], to, port) :
                      _targets'[from][i].checkin = now
    /\ Called("tick") =>
          \A d \in DOMAIN _targets : \A i \in 1..Len(_targets[d]) :
             now < _targets[d][i].checkin + Ttl => _targets[d][i] \in Range(_targets'[d])

\* C40 as stated: an expired entry is served and can be renewed until it is
\* swept, and while the scheduler is Running no entry is in a collection
\* one tick period (9000 ms) or more past its deadline.
C40_ExpiredGoneWithinOnePeriod ==
    [][/\ ExpiredStillServed
       /\ Running =>
             \A d \in DOMAIN _targets : \A i \in 1..Len(_targets[d]) :
                now - (_targets[d][i].checkin + Ttl) < Period]_vars

\* C40 as amended: an expired entry is served and can be renewed until it
\* is swept; receive and renew remove no entry, whatever its age; and the
\* first tick that runs at or after its deadline removes it.
C40_ExpiredGoneAtNextTick ==
    [][/\ ExpiredStillServed
       /\ \A d \in DOMAIN _targets :
             /\ (Called("receive") \/ Called("renew")) =>
                   (d \in DOMAIN _targets' /\ Len(_targets'[d]) = Len(_targets[d]))
             /\ Called("tick") => ~HasExpired(_targets'[d], now)]_vars

\* C40 witness: while the scheduler is Running and the tick is due, a
\* datagram has been forwarded to a target whose timeout has elapsed.
C40_Witness ==
    /\ last.op = "receive"
    /\ Running
    /\ now >= due
    /\ Len(sent) >= 1
    /\ \E d \in DOMAIN _targets :
          /\ Len(_targets[d]) = Len(sent)
          /\ \A j \in 1..Len(sent) : now - _targets[d][j].checkin >= Ttl

====
